---- MODULE Spec2Model ----
(***************************************************************************)
(* State-machine model of the real-time chat hub of loveguru               *)
(* (internal/chat/ws_hub.go): Hub, its Run loop, the per-connection read   *)
(* and write pumps, the typing timer, the history replay goroutine, the    *)
(* EnhancedHub metrics variant and the HubManager shard table.             *)
(***************************************************************************)
EXTENDS Integers, Sequences, FiniteSets, TLC

\* ---------------------------------------------------------------- bounds
\* Number of connections HandleWebSocket admits in one run.
MaxClients == 2
\* Capacity of Client.Send (make(chan Message, 256)), scaled down.
SendCap == 2
\* Number of inbound frames, SendAIMessage calls and chat_messages inserts
\* in one run.
MaxInputs == 2
\* Number of rows the chat_messages table may hold.
MaxStore == 2
\* Limit of the GetMessages query of sendRecentMessages (50), scaled down.
HistoryLimit == 1

\* EnhancedHub.connectionLimit (1000), scaled down below MaxClients.
ConnectionLimit == 1
\* Number of AddHub calls in one run.
MaxHubs == 3

ClientIds == 1..MaxClients
\* the session ids that are well-formed UUIDs
Sessions == {"s1", "s22"}
Users == {"user123", "u2"}
Contents == {"", "hi"}
\* the replies SendAIMessage is called with
AIContents == {"hi", "yo"}
\* the (session_id, userID) pairs the /ws/chat handler admits; main.go gives
\* every connection the userID "user123"
Admissions == {<<"s1", "user123">>, <<"s1", "u2">>, <<"s22", "user123">>,
               <<"bad", "user123">>}
\* the (session_id, sender_id) pairs a peer writes into its frames
Claimed == {<<"s1", "user123">>, <<"s22", "u2">>}

\* ------------------------------------------------------------ wire types
\* interface{} nil
NilData == [json |-> "null"]
\* decoded JSON payloads of an inbound frame (Message.Data)
FrameData ==
    { NilData,
      [json |-> "array"],
      [json |-> "object", message_id |-> [json |-> "string", str |-> "m1"]],
      [json |-> "object", message_id |-> [json |-> "number"]],
      [json |-> "object", other |-> [json |-> "string", str |-> "m1"]] }

Message(type, sessionID, senderID, content, data) ==
    [Type |-> type, SessionID |-> sessionID, SenderID |-> senderID,
     Content |-> content, Data |-> data]

TypingIndicator(type, sessionID, userID, isTyping) ==
    [Type |-> type, SessionID |-> sessionID, UserID |-> userID,
     IsTyping |-> isTyping]

ReadReceipt(sessionID, messageID, readerID) ==
    [Type |-> "READ_RECEIPT", SessionID |-> sessionID,
     MessageID |-> messageID, ReaderID |-> readerID]

NoMessage == Message("", "", "", "", NilData)
NoClient == [ID |-> 0, SessionID |-> "", UserID |-> ""]

\* inbound frames a peer may send, by type; session_id and sender_id are
\* whatever the peer writes
FramesOf(type) ==
    { Message(type, a[1], a[2], t, d) :
        a \in Claimed,
        t \in (IF type = "MESSAGE" THEN Contents ELSE {""}),
        d \in (IF type = "READ_RECEIPT" THEN FrameData ELSE {NilData}) }

\* HubManager: the ids AddHub is called with, the sessionIDs GetHub is asked
\* for, and "no hub returned yet"
HubIds == {"h1", "h2"}
ManagerSessions == {"", "s1", "s22"}
NoHub == [hub |-> 0, table |-> [id \in HubIds |-> 0]]

\* ----------------------------------------------------------------- state
VARIABLES
    client,       \* the Client structs created so far (ID, SessionID, UserID)
    clients,      \* Hub.clients: the keys of the membership map
    Send,         \* Client.Send: the buffered contents of each channel
    closed,       \* whether close(client.Send) has run
    connOpen,     \* Client.Conn: the socket is open on this side
    pc,           \* where HandleWebSocket/readPump of each connection stands
    pending,      \* the Message a readPump is blocked sending on h.broadcast
    decoded,      \* readPump's msg: type and content of the frame last decoded
    typingTimer,  \* typingTimer of readPump: armed and not yet fired
    writing,      \* writePump of the connection is running
    replay,       \* the sendRecentMessages goroutine of each connection
    store,        \* chat_messages rows, in created_at order
    crashed,      \* a goroutine panicked: the process is gone
    inputs,       \* frames, SendAIMessage calls and inserts taken so far
    activeConnections,  \* EnhancedHub.activeConnections
    metrics,      \* EnhancedHub.metrics (the counters of HubMetrics)
    hubs,         \* HubManager.hubs: id -> the EnhancedHub made for it (0: none)
    made,         \* how many EnhancedHubs AddHub has made
    resolved      \* per sessionID, what the last GetHub returned and from
                  \* which table

hubVars == <<client, clients, Send, closed, connOpen, pc, pending, decoded,
             typingTimer, writing, replay, store, crashed, inputs,
             activeConnections, metrics>>

mgrVars == <<hubs, made, resolved>>

vars == <<hubVars, mgrVars>>

\* ------------------------------------------------------- hub primitives
\* the hub as the methods see it: Hub's fields, and those EnhancedHub adds by
\* embedding *Hub (the methods of Hub never touch them)
Hub ==
    [clients |-> clients, Send |-> Send, closed |-> closed, panic |-> FALSE,
     activeConnections |-> activeConnections, metrics |-> metrics]

SetHub(h) ==
    /\ clients' = h.clients
    /\ Send' = h.Send
    /\ closed' = h.closed
    /\ crashed' = h.panic
    /\ activeConnections' = h.activeConnections
    /\ metrics' = h.metrics

\* TrySend putting the message at the head of the buffer instead of its tail
TrySend_AtHead(h, targets, message) ==
    LET full(c) == Len(h.Send[c]) >= SendCap
    IN [h EXCEPT !.clients = @ \ {c \in targets : full(c)},
                 !.Send = [c \in ClientIds |->
                             IF c \in targets /\ ~full(c)
                             THEN <<message>> \o @[c] ELSE @[c]],
                 !.closed = [c \in ClientIds |->
                             @[c] \/ (c \in targets /\ full(c))]]

\* select { case client.Send <- message: default: close; delete } for every
\* client of `targets`; a send on a closed channel panics
TrySend(h, targets, message) ==
    LET full(c) == Len(h.Send[c]) >= SendCap
    IN [clients |-> h.clients \ {c \in targets : full(c)},
        Send    |-> [c \in ClientIds |->
                        IF c \in targets /\ ~full(c)
                        THEN Append(h.Send[c], message) ELSE h.Send[c]],
        closed  |-> [c \in ClientIds |->
                        h.closed[c] \/ (c \in targets /\ full(c))],
        panic   |-> h.panic \/ \E c \in targets : h.closed[c],
        activeConnections |-> h.activeConnections,
        metrics |-> h.metrics]

\* broadcastMessage without the SessionID comparison
broadcastMessage_NoSessionCheck(h, message) ==
    TrySend(h, h.clients, message)

\* broadcastMessage giving up the whole fan-out when one member's channel is
\* full
broadcastMessage_StopAtFull(h, message) ==
    LET targets == {c \in h.clients :
                        client[c].SessionID = message.SessionID}
    IN IF \E c \in targets : Len(h.Send[c]) >= SendCap
       THEN [h EXCEPT !.clients = @ \ {c \in targets :
                                            Len(h.Send[c]) >= SendCap},
                      !.closed = [c \in ClientIds |->
                          @[c] \/ (c \in targets /\ Len(h.Send[c]) >= SendCap)]]
       ELSE TrySend(h, targets, message)

broadcastMessage(h, message) ==
    TrySend(h, {c \in h.clients : client[c].SessionID = message.SessionID},
            message)

broadcastTypingIndicator(h, indicator) ==
    TrySend(h,
            {c \in h.clients : /\ client[c].SessionID = indicator.SessionID
                               /\ client[c].UserID # indicator.UserID},
            Message(indicator.Type, indicator.SessionID, "", "", indicator))

\* broadcastReadReceipt without the ReaderID comparison
broadcastReadReceipt_ToReader(h, receipt) ==
    TrySend(h,
            {c \in h.clients : client[c].SessionID = receipt.SessionID},
            Message(receipt.Type, receipt.SessionID, "", "", receipt))

broadcastReadReceipt(h, receipt) ==
    TrySend(h,
            {c \in h.clients : /\ client[c].SessionID = receipt.SessionID
                               /\ client[c].UserID # receipt.ReaderID},
            Message(receipt.Type, receipt.SessionID, "", "", receipt))

registerClient(h, c) == [h EXCEPT !.clients = @ \cup {c}]

unregisterClient(h, c) ==
    IF c \in h.clients
    THEN [h EXCEPT !.clients = @ \ {c},
                   !.closed = [@ EXCEPT ![c] = TRUE],
                   !.panic = @ \/ h.closed[c]]
    ELSE h

\* Service.InsertMessageWithID: a stub that always fails
InsertMessageWithID(st, sessionID, senderType, senderID, content) ==
    [id |-> "", err |-> TRUE, store |-> st]

\* uuid.MustParse(client.SessionID) of sendRecentMessages returns
MustParse(sessionID) == sessionID \in Sessions

\* GetMessages: WHERE session_id = $1 ORDER BY created_at LIMIT $2 OFFSET 0
RECURSIVE SelectSession(_, _)
SelectSession(st, sessionID) ==
    IF st = <<>> THEN <<>>
    ELSE IF Head(st).SessionID = sessionID
         THEN <<Head(st)>> \o SelectSession(Tail(st), sessionID)
         ELSE SelectSession(Tail(st), sessionID)

GetMessages(st, sessionID, limit) ==
    LET rows == SelectSession(st, sessionID)
    IN IF Len(rows) <= limit THEN rows ELSE SubSeq(rows, 1, limit)

\* ------------------------------------------------------------------ Init
Init ==
    /\ client = [c \in ClientIds |-> NoClient]
    /\ clients = {}
    /\ Send = [c \in ClientIds |-> <<>>]
    /\ closed = [c \in ClientIds |-> FALSE]
    /\ connOpen = [c \in ClientIds |-> FALSE]
    /\ pc = [c \in ClientIds |-> "none"]
    /\ pending = [c \in ClientIds |-> NoMessage]
    /\ decoded = [c \in ClientIds |-> [Type |-> "", Content |-> ""]]
    /\ typingTimer = [c \in ClientIds |-> FALSE]
    /\ writing = [c \in ClientIds |-> FALSE]
    /\ replay = [c \in ClientIds |-> <<>>]
    /\ store = <<>>
    /\ crashed = FALSE
    /\ inputs = 0
    /\ activeConnections = 0
    /\ metrics = [TotalConnections |-> 0, ActiveConnections |-> 0,
                  MessagesSent |-> 0, Disconnections |-> 0]
    /\ hubs = [id \in HubIds |-> 0]
    /\ made = 0
    /\ resolved = [s \in ManagerSessions |-> NoHub]

\* --------------------------------------------------------------- actions
\* HandleWebSocket: the upgrade succeeded, the Client is built with a fresh
\* uuid and handed to the Run loop over the unbuffered h.register (case
\* client := <-h.register), which runs registerClient and so starts
\* sendRecentMessages; the handler starts writePump and enters readPump,
\* whose first statement arms typingTimer. sendRecentMessages begins with
\* uuid.MustParse, which panics on a session id that is no UUID, and its
\* GetMessages query (fetchOk = the query succeeded)
HandleWebSocket(sessionID, userID, fetchOk) ==
    /\ ~crashed
    /\ \E c \in ClientIds :
        /\ pc[c] = "none"
        /\ \A d \in ClientIds : d < c => pc[d] # "none"
        /\ client' = [client EXCEPT ![c] =
                        [ID |-> c, SessionID |-> sessionID, UserID |-> userID]]
        /\ connOpen' = [connOpen EXCEPT ![c] = TRUE]
        /\ SetHub([registerClient(Hub, c) EXCEPT
                      !.panic = ~MustParse(sessionID)])
        /\ LET rows == GetMessages(store, sessionID, HistoryLimit)
           IN replay' = [replay EXCEPT ![c] =
                           IF fetchOk THEN rows ELSE <<>>]
        /\ pc' = [pc EXCEPT ![c] = "read"]
        /\ writing' = [writing EXCEPT ![c] = TRUE]
        /\ typingTimer' = [typingTimer EXCEPT ![c] = TRUE]
    /\ UNCHANGED <<pending, store, inputs>>
    /\ UNCHANGED <<decoded, mgrVars>>

\* the TYPING_STOPPED indicator readPump and its timer build for a client
StoppedBy(c) ==
    TypingIndicator("TYPING_STOPPED", client[c].SessionID, client[c].UserID,
                    FALSE)

\* readPump, case "MESSAGE", going on to the broadcast whatever the insert
\* returned
ReadMessage_IgnoreInsertError(c, msg) ==
    /\ ~crashed
    /\ inputs < MaxInputs
    /\ inputs' = inputs + 1
    /\ pc[c] = "read"
    /\ msg.Type = "MESSAGE"
    /\ decoded' = [decoded EXCEPT ![c] =
                     [Type |-> msg.Type, Content |-> msg.Content]]
    /\ typingTimer' = [typingTimer EXCEPT ![c] = TRUE]
    /\ LET r == InsertMessageWithID(store, client[c].SessionID, "USER",
                                    client[c].UserID, msg.Content)
       IN IF msg.Content # ""
          THEN /\ store' = r.store
               /\ SetHub(broadcastTypingIndicator(Hub, StoppedBy(c)))
               /\ pending' = [pending EXCEPT ![c] =
                    Message("MESSAGE", client[c].SessionID, client[c].UserID,
                            msg.Content,
                            [json |-> "object", message_id |-> r.id])]
               /\ pc' = [pc EXCEPT ![c] = "broadcast"]
          ELSE UNCHANGED <<store, clients, Send, closed, crashed, pending, pc,
                          activeConnections, metrics>>
    /\ UNCHANGED <<client, connOpen, writing, replay>>
    /\ UNCHANGED mgrVars

\* readPump, case "MESSAGE": persist, then TYPING_STOPPED, then block on
\* h.broadcast; an insert error logs and continues with the next frame
ReadMessage(c, msg) ==
    /\ ~crashed
    /\ inputs < MaxInputs
    /\ inputs' = inputs + 1
    /\ pc[c] = "read"
    /\ msg.Type = "MESSAGE"
    /\ decoded' = [decoded EXCEPT ![c] =
                     [Type |-> msg.Type, Content |-> msg.Content]]
    /\ typingTimer' = [typingTimer EXCEPT ![c] = TRUE]
    /\ LET r == InsertMessageWithID(store, client[c].SessionID, "USER",
                                    client[c].UserID, msg.Content)
       IN IF msg.Content # "" /\ ~r.err
          THEN /\ store' = r.store
               /\ SetHub(broadcastTypingIndicator(Hub, StoppedBy(c)))
               /\ pending' = [pending EXCEPT ![c] =
                    Message("MESSAGE", client[c].SessionID, client[c].UserID,
                            msg.Content,
                            [json |-> "object", message_id |-> r.id])]
               /\ pc' = [pc EXCEPT ![c] = "broadcast"]
          ELSE UNCHANGED <<store, clients, Send, closed, crashed, pending, pc,
                          activeConnections, metrics>>
    /\ UNCHANGED <<client, connOpen, writing, replay>>
    /\ UNCHANGED mgrVars

\* readPump, case "TYPING_STARTED", building the indicator from the
\* session_id and sender_id of the frame instead of the client's
ReadTypingStarted_TrustFrame(c, msg) ==
    /\ ~crashed
    /\ inputs < MaxInputs
    /\ inputs' = inputs + 1
    /\ pc[c] = "read"
    /\ msg.Type = "TYPING_STARTED"
    /\ decoded' = [decoded EXCEPT ![c] =
                     [Type |-> msg.Type, Content |-> msg.Content]]
    /\ typingTimer' = [typingTimer EXCEPT ![c] = TRUE]
    /\ SetHub(broadcastTypingIndicator(Hub,
                TypingIndicator("TYPING_STARTED", msg.SessionID,
                                msg.SenderID, TRUE)))
    /\ UNCHANGED <<client, connOpen, pc, pending, writing, replay, store>>
    /\ UNCHANGED mgrVars

\* readPump, case "TYPING_STARTED"
ReadTypingStarted(c, msg) ==
    /\ ~crashed
    /\ inputs < MaxInputs
    /\ inputs' = inputs + 1
    /\ pc[c] = "read"
    /\ msg.Type = "TYPING_STARTED"
    /\ decoded' = [decoded EXCEPT ![c] =
                     [Type |-> msg.Type, Content |-> msg.Content]]
    /\ typingTimer' = [typingTimer EXCEPT ![c] = TRUE]
    /\ SetHub(broadcastTypingIndicator(Hub,
                TypingIndicator("TYPING_STARTED", client[c].SessionID,
                                client[c].UserID, TRUE)))
    /\ UNCHANGED <<client, connOpen, pc, pending, writing, replay, store>>
    /\ UNCHANGED mgrVars

\* readPump, case "TYPING_STOPPED"
ReadTypingStopped(c, msg) ==
    /\ ~crashed
    /\ inputs < MaxInputs
    /\ inputs' = inputs + 1
    /\ pc[c] = "read"
    /\ msg.Type = "TYPING_STOPPED"
    /\ decoded' = [decoded EXCEPT ![c] =
                     [Type |-> msg.Type, Content |-> msg.Content]]
    /\ typingTimer' = [typingTimer EXCEPT ![c] = TRUE]
    /\ SetHub(broadcastTypingIndicator(Hub, StoppedBy(c)))
    /\ UNCHANGED <<client, connOpen, pc, pending, writing, replay, store>>
    /\ UNCHANGED mgrVars

\* msg.Data.(map[string]interface{})["message_id"].(string)
HasMessageID(data) ==
    /\ data.json = "object"
    /\ "message_id" \in DOMAIN data
    /\ data.message_id.json = "string"

\* readPump, case "READ_RECEIPT"
ReadReadReceipt(c, msg) ==
    /\ ~crashed
    /\ inputs < MaxInputs
    /\ inputs' = inputs + 1
    /\ pc[c] = "read"
    /\ msg.Type = "READ_RECEIPT"
    /\ decoded' = [decoded EXCEPT ![c] =
                     [Type |-> msg.Type, Content |-> msg.Content]]
    /\ typingTimer' = [typingTimer EXCEPT ![c] = TRUE]
    /\ IF HasMessageID(msg.Data)
       THEN SetHub(broadcastReadReceipt(Hub,
                ReadReceipt(client[c].SessionID, msg.Data.message_id.str,
                            client[c].UserID)))
       ELSE UNCHANGED <<clients, Send, closed, crashed, activeConnections,
                         metrics>>
    /\ UNCHANGED <<client, connOpen, pc, pending, writing, replay, store>>
    /\ UNCHANGED mgrVars

\* readPump with typingTimer.Reset inside the known cases of the switch only:
\* a frame of any other type leaves the timer as it was
ReadOther_NoReset(c, msg) ==
    /\ ~crashed
    /\ inputs < MaxInputs
    /\ inputs' = inputs + 1
    /\ pc[c] = "read"
    /\ msg.Type = "PING"
    /\ decoded' = [decoded EXCEPT ![c] =
                     [Type |-> msg.Type, Content |-> msg.Content]]
    /\ UNCHANGED <<client, clients, Send, closed, connOpen, pc, pending,
                   typingTimer, writing, replay, store, crashed,
                   activeConnections, metrics>>
    /\ UNCHANGED mgrVars

\* readPump: a frame of any other type only resets the timer
ReadOther(c, msg) ==
    /\ ~crashed
    /\ inputs < MaxInputs
    /\ inputs' = inputs + 1
    /\ pc[c] = "read"
    /\ msg.Type = "PING"
    /\ decoded' = [decoded EXCEPT ![c] =
                     [Type |-> msg.Type, Content |-> msg.Content]]
    /\ typingTimer' = [typingTimer EXCEPT ![c] = TRUE]
    /\ UNCHANGED <<client, clients, Send, closed, connOpen, pc, pending,
                   writing, replay, store, crashed, activeConnections,
                   metrics>>
    /\ UNCHANGED mgrVars

\* readPump: ReadJSON fails; the loop breaks, the final TYPING_STOPPED is
\* broadcast, the deferred Conn.Close runs and HandleWebSocket's deferred
\* function blocks on h.unregister
ReadPumpExit(c) ==
    /\ ~crashed
    /\ pc[c] = "read"
    /\ SetHub(broadcastTypingIndicator(Hub, StoppedBy(c)))
    /\ connOpen' = [connOpen EXCEPT ![c] = FALSE]
    /\ pc' = [pc EXCEPT ![c] = "unregister"]
    /\ UNCHANGED <<client, pending, typingTimer, writing, replay, store,
                   inputs>>
    /\ UNCHANGED <<decoded, mgrVars>>

\* the time.AfterFunc callback of readPump: 3s passed without a Reset. The
\* timer is never stopped, so it also fires after its readPump returned
TypingTimerFire(c) ==
    /\ ~crashed
    /\ typingTimer[c]
    /\ typingTimer' = [typingTimer EXCEPT ![c] = FALSE]
    /\ SetHub(broadcastTypingIndicator(Hub, StoppedBy(c)))
    /\ UNCHANGED <<client, connOpen, pc, pending, writing, replay, store,
                   inputs>>
    /\ UNCHANGED <<decoded, mgrVars>>

\* Hub.SendAIMessage: the message an outside caller hands to h.broadcast
SendAIMessage(sessionID, content) ==
    Message("MESSAGE", sessionID, "ai", content, NilData)

\* the senders blocked on h.broadcast: readPumps (from = the client) and
\* callers of SendAIMessage (from = 0)
BroadcastSenders ==
    {[from |-> c, msg |-> pending[c]] :
        c \in {d \in ClientIds : pc[d] = "broadcast"}}
    \cup {[from |-> 0, msg |-> SendAIMessage(s, t)] :
            s \in Sessions, t \in AIContents}

\* Run: case message := <-h.broadcast
HubBroadcast(b) ==
    /\ ~crashed
    /\ b.from = 0 => inputs < MaxInputs
    /\ inputs' = IF b.from = 0 THEN inputs + 1 ELSE inputs
    /\ SetHub(broadcastMessage(Hub, b.msg))
    /\ pc' = IF b.from = 0 THEN pc ELSE [pc EXCEPT ![b.from] = "read"]
    /\ pending' = IF b.from = 0 THEN pending
                  ELSE [pending EXCEPT ![b.from] = NoMessage]
    /\ UNCHANGED <<client, connOpen, typingTimer, writing, replay, store>>
    /\ UNCHANGED <<decoded, mgrVars>>

\* Run: case client := <-h.unregister; HandleWebSocket then returns
HubUnregister(c) ==
    /\ ~crashed
    /\ pc[c] = "unregister"
    /\ SetHub(unregisterClient(Hub, c))
    /\ pc' = [pc EXCEPT ![c] = "done"]
    /\ UNCHANGED <<client, connOpen, pending, typingTimer, writing, replay,
                   store, inputs>>
    /\ UNCHANGED <<decoded, mgrVars>>

\* cleanupConnections with `failed` the clients whose ping WriteControl
\* returned an error
cleanupConnections(h, failed) ==
    [h EXCEPT !.clients = @ \ failed,
              !.closed = [c \in ClientIds |-> @[c] \/ c \in failed],
              !.panic = @ \/ \E c \in failed : h.closed[c]]

\* Run: case <-ticker.C. A ping on a socket closed on this side fails; on an
\* open socket it fails or not, as the network decides
HubCleanup(failed) ==
    /\ ~crashed
    /\ clients # {}
    /\ failed \subseteq clients
    /\ \A c \in clients : ~connOpen[c] => c \in failed
    /\ SetHub(cleanupConnections(Hub, failed))
    /\ UNCHANGED <<client, connOpen, pc, pending, typingTimer, writing,
                   replay, store, inputs>>
    /\ UNCHANGED <<decoded, mgrVars>>

\* writePump: case message, ok := <-client.Send. A closed and drained channel
\* ends the pump; so does a WriteJSON that fails because the socket is closed
WritePump(c) ==
    /\ ~crashed
    /\ writing[c]
    /\ IF Send[c] # <<>>
       THEN /\ Send' = [Send EXCEPT ![c] = Tail(@)]
            /\ writing' = [writing EXCEPT ![c] = connOpen[c]]
       ELSE /\ closed[c]
            /\ writing' = [writing EXCEPT ![c] = FALSE]
            /\ Send' = Send
    /\ UNCHANGED <<client, clients, closed, connOpen, pc, pending,
                   typingTimer, replay, store, crashed, inputs,
                   activeConnections, metrics>>
    /\ UNCHANGED <<decoded, mgrVars>>

\* sendRecentMessages: one turn of the loop, `case client.Send <- message`.
\* The send blocks while the channel is full and panics once it is closed
ReplaySend(c) ==
    /\ ~crashed
    /\ replay[c] # <<>>
    /\ closed[c] \/ Len(Send[c]) < SendCap
    /\ LET row == Head(replay[c])
       IN IF closed[c]
          THEN /\ crashed' = TRUE
               /\ UNCHANGED <<Send, replay>>
          ELSE /\ crashed' = crashed
               /\ Send' = [Send EXCEPT ![c] = Append(@,
                     Message("MESSAGE", client[c].SessionID, row.SenderID,
                             row.Content, NilData))]
               /\ replay' = [replay EXCEPT ![c] = Tail(@)]
    /\ UNCHANGED <<client, clients, closed, connOpen, pc, pending,
                   typingTimer, writing, store, inputs, activeConnections,
                   metrics>>
    /\ UNCHANGED <<decoded, mgrVars>>

\* sendRecentMessages giving up by closing the channel and deleting the client
ReplayTimeout_Drop(c) ==
    /\ ~crashed
    /\ replay[c] # <<>>
    /\ ~closed[c]
    /\ Len(Send[c]) >= SendCap
    /\ replay' = [replay EXCEPT ![c] = <<>>]
    /\ clients' = clients \ {c}
    /\ closed' = [closed EXCEPT ![c] = TRUE]
    /\ UNCHANGED <<client, Send, connOpen, pc, pending, typingTimer, writing,
                   store, crashed, inputs, activeConnections, metrics>>
    /\ UNCHANGED <<decoded, mgrVars>>

\* sendRecentMessages: case <-time.After(5 * time.Second), the channel stayed
\* full; the goroutine returns
ReplayTimeout(c) ==
    /\ ~crashed
    /\ replay[c] # <<>>
    /\ ~closed[c]
    /\ Len(Send[c]) >= SendCap
    /\ replay' = [replay EXCEPT ![c] = <<>>]
    /\ UNCHANGED <<client, clients, Send, closed, connOpen, pc, pending,
                   typingTimer, writing, store, crashed, inputs,
                   activeConnections, metrics>>
    /\ UNCHANGED <<decoded, mgrVars>>

\* Service.InsertMessage (the gRPC path): a row is added to chat_messages
InsertMessage(sessionID, senderID, content) ==
    /\ ~crashed
    /\ Len(store) < MaxStore
    /\ inputs < MaxInputs
    /\ inputs' = inputs + 1
    /\ store' = Append(store, [SessionID |-> sessionID, SenderID |-> senderID,
                               Content |-> content,
                               CreatedAt |-> Len(store) + 1])
    /\ UNCHANGED <<client, clients, Send, closed, connOpen, pc, pending,
                   typingTimer, writing, replay, crashed, activeConnections,
                   metrics>>
    /\ UNCHANGED <<decoded, mgrVars>>

\* the broadcasts that can be inside their clientLock.RLock() section at the
\* same time, each with the goroutine running it and the members its filter
\* selects: the typing-timer callback of a connection, the readPump of a
\* connection (its exit-path TYPING_STOPPED needs no frame), and the Run loop
\* in broadcastMessage. A read lock admits any number of holders
RLockSections ==
    {[by |-> <<"timer", c>>,
      targets |-> {d \in clients :
                      /\ client[d].SessionID = client[c].SessionID
                      /\ client[d].UserID # client[c].UserID}] :
        c \in {e \in ClientIds : typingTimer[e]}}
    \cup {[by |-> <<"readPump", c>>,
           targets |-> {d \in clients :
                           /\ client[d].SessionID = client[c].SessionID
                           /\ client[d].UserID # client[c].UserID}] :
            c \in {e \in ClientIds : pc[e] = "read"}}
    \cup {[by |-> <<"Run", 0>>,
           targets |-> {d \in clients :
                           client[d].SessionID = b.msg.SessionID}] :
            b \in {e \in BroadcastSenders : e.from = 0 => inputs < MaxInputs}}

\* two broadcasts hold the read lock together and both find the buffer of
\* member d full: both take the default branch, and the second
\* close(client.Send) panics with "close of closed channel" (the two
\* delete(h.clients, ...) are also unsynchronised map writes, a fatal error
\* of the runtime). Nothing recovers, the process ends
ConcurrentDrop(d) ==
    /\ ~crashed
    /\ d \in clients
    /\ Len(Send[d]) >= SendCap
    /\ \E g1 \in RLockSections : \E g2 \in RLockSections :
            /\ g1.by # g2.by
            /\ d \in g1.targets \cap g2.targets
    /\ crashed' = TRUE
    /\ UNCHANGED <<client, clients, Send, closed, connOpen, pc, pending,
                   decoded, typingTimer, writing, replay, store, inputs,
                   activeConnections, metrics>>
    /\ UNCHANGED mgrVars

HubNext ==
    \/ \E a \in Admissions : \E fetchOk \in BOOLEAN :
            HandleWebSocket(a[1], a[2], fetchOk)
    \/ \E c \in ClientIds : \E msg \in FramesOf("MESSAGE") : ReadMessage(c, msg)
    \/ \E c \in ClientIds : \E msg \in FramesOf("TYPING_STARTED") :
            ReadTypingStarted(c, msg)
    \/ \E c \in ClientIds : \E msg \in FramesOf("TYPING_STOPPED") :
            ReadTypingStopped(c, msg)
    \/ \E c \in ClientIds : \E msg \in FramesOf("READ_RECEIPT") :
            ReadReadReceipt(c, msg)
    \/ \E c \in ClientIds : \E msg \in FramesOf("PING") : ReadOther(c, msg)
    \/ \E c \in ClientIds : ReadPumpExit(c)
    \/ \E c \in ClientIds : TypingTimerFire(c)
    \/ \E b \in BroadcastSenders : HubBroadcast(b)
    \/ \E c \in ClientIds : HubUnregister(c)
    \/ \E failed \in SUBSET ClientIds : HubCleanup(failed)
    \/ \E c \in ClientIds : WritePump(c)
    \/ \E c \in ClientIds : ReplaySend(c)
    \/ \E c \in ClientIds : ReplayTimeout(c)
    \/ \E s \in Sessions : InsertMessage(s, "u2", "hi")
    \/ \E d \in ClientIds : ConcurrentDrop(d)

\* the hub as cmd/server/main.go runs it (go chatHub.Run()), and as
\* HubManager.AddHub runs an EnhancedHub (go hub.Run()): Run is Hub.Run with
\* the embedded *Hub as receiver, so its cases call Hub.registerClient,
\* Hub.unregisterClient and Hub.broadcastMessage, never the methods of the
\* same names that EnhancedHub declares
Next == HubNext

Spec == Init /\ [][Next]_vars

\* ----------------------------------------------------------- EnhancedHub
\* EnhancedHub.registerClient
Enhanced_registerClient(h, c) ==
    IF Cardinality(h.clients) >= ConnectionLimit
    THEN h
    ELSE [h EXCEPT !.clients = @ \cup {c},
                   !.activeConnections = @ + 1,
                   !.metrics = [@ EXCEPT
                       !.TotalConnections = @ + 1,
                       !.ActiveConnections = h.activeConnections + 1]]

\* EnhancedHub.unregisterClient
Enhanced_unregisterClient(h, c) ==
    IF c \in h.clients
    THEN [h EXCEPT !.clients = @ \ {c},
                   !.closed = [@ EXCEPT ![c] = TRUE],
                   !.panic = @ \/ h.closed[c],
                   !.activeConnections = @ - 1,
                   !.metrics = [@ EXCEPT
                       !.ActiveConnections = h.activeConnections - 1,
                       !.Disconnections = @ + 1]]
    ELSE h

\* EnhancedHub.broadcastMessage: MessagesSent counts the sends that went
\* through
Enhanced_broadcastMessage(h, message) ==
    LET targets == {c \in h.clients :
                        client[c].SessionID = message.SessionID}
        sent == {c \in targets : Len(h.Send[c]) < SendCap}
    IN [TrySend(h, targets, message) EXCEPT
            !.metrics = [@ EXCEPT !.MessagesSent = @ + Cardinality(sent)]]

\* EnhancedHub.Shutdown up to the clearing of the map; metrics is not touched
Shutdown(h) ==
    [h EXCEPT !.clients = {},
              !.closed = [c \in ClientIds |-> @[c] \/ c \in h.clients],
              !.panic = @ \/ \E c \in h.clients : h.closed[c],
              !.activeConnections = 0]

\* EnhancedHub.GetMetrics: the copy it returns
GetMetrics(h) == h.metrics

\* a caller inside package chat builds a Client and hands it to
\* EnhancedHub.registerClient, which starts sendRecentMessages unless the
\* limit is reached
EnhancedRegister(sessionID, userID, fetchOk) ==
    /\ ~crashed
    /\ \E c \in ClientIds :
        /\ pc[c] = "none"
        /\ \A d \in ClientIds : d < c => pc[d] # "none"
        /\ client' = [client EXCEPT ![c] =
                        [ID |-> c, SessionID |-> sessionID, UserID |-> userID]]
        /\ connOpen' = [connOpen EXCEPT ![c] = TRUE]
        /\ pc' = [pc EXCEPT ![c] = "held"]
        /\ LET h == Enhanced_registerClient(Hub, c)
               rows == GetMessages(store, sessionID, HistoryLimit)
           IN /\ SetHub([h EXCEPT !.panic =
                            c \in h.clients /\ ~MustParse(sessionID)])
              /\ replay' = [replay EXCEPT ![c] =
                              IF c \in h.clients /\ fetchOk THEN rows ELSE <<>>]
    /\ UNCHANGED <<pending, typingTimer, writing, store, inputs>>
    /\ UNCHANGED <<decoded, mgrVars>>

\* the caller hands a Client it holds to EnhancedHub.unregisterClient
EnhancedUnregister(c) ==
    /\ ~crashed
    /\ pc[c] = "held"
    /\ SetHub(Enhanced_unregisterClient(Hub, c))
    /\ pc' = [pc EXCEPT ![c] = "done"]
    /\ UNCHANGED <<client, connOpen, pending, typingTimer, writing, replay,
                   store, inputs>>
    /\ UNCHANGED <<decoded, mgrVars>>

\* the caller hands a Message to EnhancedHub.broadcastMessage
EnhancedBroadcast(message) ==
    /\ ~crashed
    /\ inputs < MaxInputs
    /\ inputs' = inputs + 1
    /\ SetHub(Enhanced_broadcastMessage(Hub, message))
    /\ UNCHANGED <<client, connOpen, pc, pending, typingTimer, writing,
                   replay, store>>
    /\ UNCHANGED <<decoded, mgrVars>>

\* EnhancedHub.Shutdown: every member's channel and socket are closed
EnhancedShutdown ==
    /\ ~crashed
    /\ clients # {}
    /\ SetHub(Shutdown(Hub))
    /\ connOpen' = [c \in ClientIds |-> connOpen[c] /\ c \notin clients]
    /\ UNCHANGED <<client, pc, pending, typingTimer, writing, replay, store,
                   inputs>>
    /\ UNCHANGED <<decoded, mgrVars>>

NextEnhanced ==
    \/ \E a \in Admissions : \E fetchOk \in BOOLEAN :
            EnhancedRegister(a[1], a[2], fetchOk)
    \/ \E c \in ClientIds : EnhancedUnregister(c)
    \/ \E s \in Sessions : EnhancedBroadcast(SendAIMessage(s, "hi"))
    \/ EnhancedShutdown

\* the methods of EnhancedHub, called directly, over an empty chat_messages
\* table (sendRecentMessages finds nothing to replay)
SpecEnhanced == Init /\ [][NextEnhanced]_vars

\* ------------------------------------------------------------ HubManager
\* the orders in which a range over hm.hubs may visit its keys
IterationOrders(table) ==
    LET keys == {id \in HubIds : table[id] # 0}
    IN {o \in [1..Cardinality(keys) -> keys] :
            \A i, j \in DOMAIN o : i # j => o[i] # o[j]}

\* HubManager.GetHub on a non-empty table, the range visiting the keys in
\* `order`: the hub met when the loop counter equals the hash (the hash is
\* below the length, so the fallback range is never entered)
GetHub(table, sessionID, order) ==
    LET hash == Len(sessionID) % Len(order)
    IN table[order[hash + 1]]

\* HubManager.AddHub: a new EnhancedHub is stored under id
AddHub(id) ==
    /\ ~crashed
    /\ made < MaxHubs
    /\ made' = made + 1
    /\ hubs' = [hubs EXCEPT ![id] = made + 1]
    /\ UNCHANGED <<resolved, hubVars>>

\* a call of HubManager.GetHub; with no hub in the table the modulo panics
\* (integer divide by zero)
CallGetHub(sessionID) ==
    /\ ~crashed
    /\ IF \A id \in HubIds : hubs[id] = 0
       THEN /\ crashed' = TRUE
            /\ UNCHANGED resolved
       ELSE /\ crashed' = crashed
            /\ \E order \in IterationOrders(hubs) :
                 resolved' = [resolved EXCEPT ![sessionID] =
                     [hub |-> GetHub(hubs, sessionID, order), table |-> hubs]]
    /\ UNCHANGED <<client, clients, Send, closed, connOpen, pc, pending, decoded,
                   typingTimer, writing, replay, store, inputs,
                   activeConnections, metrics, hubs, made>>

NextManager ==
    \/ \E id \in HubIds : AddHub(id)
    \/ \E s \in ManagerSessions : CallGetHub(s)

SpecManager == Init /\ [][NextManager]_vars

\* ================================================================ claims
\* the envelope broadcastTypingIndicator puts on the channels for client c
TypingEnvelope(type, c) ==
    [Type |-> type, SessionID |-> client[c].SessionID, SenderID |-> "",
     Content |-> "",
     Data |-> [Type |-> type, SessionID |-> client[c].SessionID,
               UserID |-> client[c].UserID,
               IsTyping |-> (type = "TYPING_STARTED")]]

\* d is a member attached to the conversation of c
SameConversation(c, d) ==
    d \in clients /\ client[d].SessionID = client[c].SessionID

HasRoom(d) == Len(Send[d]) < SendCap

\* C1: in every reachable state, every envelope on the outbound channel of a
\* connection (chat message, typing indicator, read receipt or replayed
\* history) carries that connection's own conversation id.
C1_ConversationIsolation ==
    \A c \in ClientIds : \A i \in 1..Len(Send[c]) :
        Send[c][i].SessionID = client[c].SessionID

\* C1 witness: two members of different conversations, one of them holding a
\* broadcast chat message, the other holding nothing.
C1_Witness ==
    \E a, b \in clients :
        /\ client[a].SessionID # client[b].SessionID
        /\ \E i \in 1..Len(Send[a]) :
              Send[a][i].Type = "MESSAGE" /\ Send[a][i].SenderID = "ai"
        /\ Send[b] = <<>>

\* C2: a TYPING_STARTED frame read on connection c is put on the channel of
\* every other member of c's conversation that has room, whatever UserID that
\* member carries, and is not put on c's own channel.
C2_TypingStartedToEveryOther ==
    [][\A c \in ClientIds : \A msg \in FramesOf("TYPING_STARTED") :
          ReadTypingStarted(c, msg) =>
            /\ \A d \in ClientIds \ {c} :
                  SameConversation(c, d) /\ HasRoom(d) =>
                     Send'[d] = Append(Send[d],
                                       TypingEnvelope("TYPING_STARTED", c))
            /\ Send'[c] = Send[c]]_vars

\* C3: a step of the Run loop that broadcasts a message closes and removes
\* exactly the members of the conversation whose channel is full, appends the
\* message to every other member of the conversation, and leaves every other
\* connection's channel and membership as they were.
C3_BackpressureDrop ==
    [][\A b \in BroadcastSenders : HubBroadcast(b) =>
          \A c \in ClientIds :
            IF c \in clients /\ client[c].SessionID = b.msg.SessionID
            THEN IF Len(Send[c]) >= SendCap
                 THEN /\ closed'[c]
                      /\ c \notin clients'
                      /\ Send'[c] = Send[c]
                 ELSE /\ Send'[c] = Append(Send[c], b.msg)
                      /\ c \in clients'
                      /\ closed'[c] = closed[c]
            ELSE /\ Send'[c] = Send[c]
                 /\ closed'[c] = closed[c]
                 /\ (c \in clients') = (c \in clients)]_vars

\* C3 witness: a connection whose read pump still runs on an open socket was
\* dropped with a full channel, and the broadcast message it did not get sits
\* on the channel of another member of its conversation.
C3_Witness ==
    \E a, b \in ClientIds :
        /\ a # b
        /\ client[a].SessionID = client[b].SessionID
        /\ closed[a] /\ a \notin clients
        /\ pc[a] = "read" /\ connOpen[a]
        /\ Len(Send[a]) = SendCap
        /\ \A i \in 1..Len(Send[a]) : Send[a][i].Type # "MESSAGE"
        /\ b \in clients /\ ~closed[b]
        /\ Send[b] # <<>>
        /\ Send[b][Len(Send[b])].Type = "MESSAGE"
        /\ Send[b][Len(Send[b])].SenderID = "ai"

\* C4: while the shard table is unchanged, a GetHub call for a sessionID
\* returns the shard that the previous GetHub call for the same sessionID
\* returned from that table.
C4_GetHubDeterministic ==
    [][\A s \in ManagerSessions :
          (/\ resolved[s].hub # 0
           /\ resolved[s].table = hubs
           /\ hubs' = hubs) => resolved'[s].hub = resolved[s].hub]_vars

\* C5: once GetHub has returned a shard for a sessionID, every later GetHub
\* for that sessionID returns the same shard, whatever AddHub calls happened
\* in between.
C5_ShardAssignmentStable ==
    [][\A s \in ManagerSessions :
          resolved[s].hub # 0 => resolved'[s].hub = resolved[s].hub]_vars

\* C6: in every reachable state of the EnhancedHub, registering a new
\* connection and unregistering it at once leaves the ActiveConnections
\* metric at the value it had before the registration.
C6_RegisterUnregisterRestoresActive ==
    \A c \in ClientIds :
        pc[c] = "none" =>
            GetMetrics(Enhanced_unregisterClient(
                          Enhanced_registerClient(Hub, c), c)).ActiveConnections
              = GetMetrics(Hub).ActiveConnections

C8_IdleTimeoutStopsTyping ==
    [][\A c \in ClientIds :
          (decoded[c].Type = "TYPING_STARTED" /\ TypingTimerFire(c)) =>
              \A d \in ClientIds \ {c} :
                  SameConversation(c, d) /\ HasRoom(d) =>
                     Send'[d] = Append(Send[d],
                                       TypingEnvelope("TYPING_STOPPED", c))]_vars

\* the envelope broadcastReadReceipt puts on the channels for reader c
ReceiptEnvelope(c, messageID) ==
    [Type |-> "READ_RECEIPT", SessionID |-> client[c].SessionID,
     SenderID |-> "", Content |-> "",
     Data |-> [Type |-> "READ_RECEIPT", SessionID |-> client[c].SessionID,
               MessageID |-> messageID, ReaderID |-> client[c].UserID]]

\* d is a member of c's conversation that carries another UserID than c
OtherParticipant(c, d) ==
    SameConversation(c, d) /\ client[d].UserID # client[c].UserID

\* a frame whose payload is an object with a string message_id
CarriesMessageID(msg) ==
    /\ msg.Data.json = "object"
    /\ "message_id" \in DOMAIN msg.Data
    /\ msg.Data.message_id.json = "string"

\* C9 as claimed: a READ_RECEIPT frame from c carrying message_id m puts a
\* READ_RECEIPT envelope with reader_id = c's participant and message_id = m
\* on every other participant's connection of the conversation and on no
\* connection of c's participant; a frame without message_id changes no
\* channel and no membership.
C9_ReadReceiptRelay_AsClaimed ==
    [][\A c \in ClientIds : \A msg \in FramesOf("READ_RECEIPT") :
          ReadReadReceipt(c, msg) =>
            IF CarriesMessageID(msg)
            THEN \A d \in ClientIds :
                    IF OtherParticipant(c, d)
                    THEN Send'[d] = Append(Send[d],
                            ReceiptEnvelope(c, msg.Data.message_id.str))
                    ELSE Send'[d] = Send[d]
            ELSE /\ Send' = Send
                 /\ clients' = clients
                 /\ closed' = closed
                 /\ pc'[c] = "read"]_vars

\* C9 amended: as claimed for the members whose channel has room; a member
\* of another participant whose channel is full gets no envelope and is
\* closed and removed instead. No other membership changes.
C9_ReadReceiptRelay ==
    [][\A c \in ClientIds : \A msg \in FramesOf("READ_RECEIPT") :
          ReadReadReceipt(c, msg) =>
            IF CarriesMessageID(msg)
            THEN \A d \in ClientIds :
                    IF OtherParticipant(c, d)
                    THEN IF HasRoom(d)
                         THEN /\ Send'[d] = Append(Send[d],
                                  ReceiptEnvelope(c, msg.Data.message_id.str))
                              /\ d \in clients'
                              /\ closed'[d] = closed[d]
                         ELSE /\ Send'[d] = Send[d]
                              /\ d \notin clients'
                              /\ closed'[d]
                    ELSE /\ Send'[d] = Send[d]
                         /\ (d \in clients') = (d \in clients)
                         /\ closed'[d] = closed[d]
            ELSE /\ Send' = Send
                 /\ clients' = clients
                 /\ closed' = closed
                 /\ pc'[c] = "read"]_vars

\* C9 witness: a reader whose last frame was a READ_RECEIPT is still
\* registered and holds no receipt, while a member of another participant
\* holds the receipt naming the reader and the message.
C9_Witness ==
    \E a, b \in clients :
        /\ decoded[a].Type = "READ_RECEIPT"
        /\ pc[a] = "read"
        /\ \A i \in 1..Len(Send[a]) : Send[a][i].Type # "READ_RECEIPT"
        /\ OtherParticipant(a, b)
        /\ Send[b] # <<>>
        /\ Send[b][Len(Send[b])] = ReceiptEnvelope(a, "m1")

\* C10: a step of readPump on a MESSAGE frame leaves the connection blocked
\* on h.broadcast only if the content is non-empty and the insert succeeded,
\* with the row stored; when the insert fails the step changes no channel and
\* no membership, hands nothing to the Run loop, and the connection goes on
\* reading.
C10_PersistBeforeBroadcast ==
    [][\A c \in ClientIds : \A msg \in FramesOf("MESSAGE") :
          ReadMessage(c, msg) =>
            LET r == InsertMessageWithID(store, client[c].SessionID, "USER",
                                         client[c].UserID, msg.Content)
            IN /\ pc'[c] = "broadcast" =>
                     /\ msg.Content # ""
                     /\ ~r.err
                     /\ store' = r.store
               /\ r.err =>
                     /\ Send' = Send
                     /\ clients' = clients
                     /\ closed' = closed
                     /\ pending' = pending
                     /\ pc'[c] = "read"]_vars

\* C10 witness: a connection whose last frame was a MESSAGE with content,
\* whose insert failed: nothing is stored, no channel holds anything, and the
\* connection is registered and reading.
C10_Witness ==
    \E c \in clients :
        /\ decoded[c] = [Type |-> "MESSAGE", Content |-> "hi"]
        /\ pc[c] = "read"
        /\ ~closed[c]
        /\ store = <<>>
        /\ \A d \in ClientIds : Send[d] = <<>>
        /\ pending[c] = NoMessage

\* a step of the readPump of c on an inbound frame or on its exit
ReadPumpStep(c) ==
    \/ \E msg \in FramesOf("MESSAGE") : ReadMessage(c, msg)
    \/ \E msg \in FramesOf("TYPING_STARTED") : ReadTypingStarted(c, msg)
    \/ \E msg \in FramesOf("TYPING_STOPPED") : ReadTypingStopped(c, msg)
    \/ \E msg \in FramesOf("READ_RECEIPT") : ReadReadReceipt(c, msg)
    \/ \E msg \in FramesOf("PING") : ReadOther(c, msg)
    \/ ReadPumpExit(c)

\* a step of the Run loop: one case of its select
RunLoopStep ==
    \/ \E a \in Admissions : \E fetchOk \in BOOLEAN :
            HandleWebSocket(a[1], a[2], fetchOk)
    \/ \E b \in BroadcastSenders : HubBroadcast(b)
    \/ \E c \in ClientIds : HubUnregister(c)
    \/ \E failed \in SUBSET ClientIds : HubCleanup(failed)

\* C11: no step of a connection's readPump and no firing of its typing timer
\* adds or removes an entry of the membership map; the map changes only in
\* steps of the Run loop.
C11_MembershipOnlyByRunLoop ==
    [][/\ \A c \in ClientIds :
            ReadPumpStep(c) \/ TypingTimerFire(c) => clients' = clients
       /\ clients' # clients => RunLoopStep]_vars

\* C12: in every reachable state the process that runs the registry loop is
\* alive: no connect, disconnect, inbound frame, full queue, store failure,
\* failed history fetch or failed liveness probe has made a goroutine panic.
C12_NoEventIsFatal == ~crashed

\* C13: the Run loop's broadcast puts its message behind everything already
\* buffered for each member it reaches; no step of any goroutine reorders a
\* buffer or inserts ahead of what is buffered (a buffer only grows at its
\* tail and shrinks at its head); and writePump takes the head. So two
\* broadcasts stay, in every buffer holding both, in the order Run processed
\* them, and are written in that order.
C13_DeliveryOrder ==
    [][/\ \A b \in BroadcastSenders : HubBroadcast(b) =>
            \A d \in ClientIds :
                \/ Send'[d] = Send[d]
                \/ Send'[d] = Append(Send[d], b.msg)
       /\ \A c \in ClientIds :
            \/ Send'[c] = Send[c]
            \/ Send[c] # <<>> /\ Send'[c] = Tail(Send[c])
            \/ /\ Len(Send'[c]) = Len(Send[c]) + 1
               /\ SubSeq(Send'[c], 1, Len(Send[c])) = Send[c]
       /\ \A c \in ClientIds : WritePump(c) /\ Send[c] # <<>> =>
            Send'[c] = Tail(Send[c])]_vars

\* C13 witness: a member's buffer holds two different broadcasts of its
\* conversation, the one Run processed first ahead of the other.
C13_Witness ==
    \E c \in clients :
        /\ writing[c]
        /\ Send[c] = <<SendAIMessage(client[c].SessionID, "yo"),
                       SendAIMessage(client[c].SessionID, "hi")>>

\* C14: a connection's outbound buffer grows only in steps of the Run loop and
\* shrinks only in steps of that connection's writePump.
C14_SingleWriterSingleReader ==
    [][\A c \in ClientIds :
          /\ Len(Send'[c]) > Len(Send[c]) => RunLoopStep
          /\ Len(Send'[c]) < Len(Send[c]) => WritePump(c)]_vars

\* the members a broadcast of message reaches: those of its conversation
\* whose buffer has room
Delivered(message) ==
    {d \in clients : /\ client[d].SessionID = message.SessionID
                     /\ HasRoom(d)}

\* C15: with the Run loop running, each register it processes adds 1 to
\* TotalConnections, each unregister of a member adds 1 to Disconnections,
\* and each broadcast adds to MessagesSent the number of members it was
\* delivered to.
C15_MetricsFollowTheLoop ==
    [][/\ (\E a \in Admissions : \E fetchOk \in BOOLEAN :
                HandleWebSocket(a[1], a[2], fetchOk)) =>
            GetMetrics(Hub).TotalConnections' =
                GetMetrics(Hub).TotalConnections + 1
       /\ \A c \in ClientIds : HubUnregister(c) /\ c \in clients =>
            GetMetrics(Hub).Disconnections' =
                GetMetrics(Hub).Disconnections + 1
       /\ \A b \in BroadcastSenders : HubBroadcast(b) =>
            GetMetrics(Hub).MessagesSent' =
                GetMetrics(Hub).MessagesSent + Cardinality(Delivered(b.msg))]_vars

\* C16: a Shutdown step leaves the channel of every connection that was
\* registered closed, the membership map empty, h.activeConnections at 0
\* and the ActiveConnections that GetMetrics reports at 0.
C16_GracefulShutdown ==
    [][EnhancedShutdown =>
          /\ \A c \in clients : closed'[c]
          /\ clients' = {}
          /\ activeConnections' = 0
          /\ GetMetrics(Hub).ActiveConnections' = 0]_vars

\* C17: after a sweep of the Run loop, every member whose ping failed is out
\* of the membership map, its channel is closed and its socket is closed;
\* every member whose ping succeeded is still a member, its channel open and
\* its buffer as it was.
C17_HealthSweep ==
    [][\A failed \in SUBSET ClientIds : HubCleanup(failed) =>
          \A c \in clients :
              IF c \in failed
              THEN /\ c \notin clients'
                   /\ closed'[c]
                   /\ ~connOpen'[c]
              ELSE /\ c \in clients'
                   /\ ~closed'[c]
                   /\ Send'[c] = Send[c]]_vars

\* the `limit` newest rows of a conversation, oldest first
MostRecent(st, sessionID, limit) ==
    LET rows == SelectSession(st, sessionID)
    IN IF Len(rows) <= limit THEN rows
       ELSE SubSeq(rows, Len(rows) - limit + 1, Len(rows))

\* C18: when a connection is registered and its history query succeeds, the
\* rows sendRecentMessages is about to send are the HistoryLimit newest rows
\* of the connection's conversation; and a send of the replay changes the
\* buffer of no other connection.
C18_ReplayMostRecent ==
    [][/\ \A a \in Admissions :
            HandleWebSocket(a[1], a[2], TRUE) /\ MustParse(a[1]) =>
                \A c \in ClientIds :
                    pc[c] = "none" /\ pc'[c] = "read" =>
                        replay'[c] = MostRecent(store, a[1], HistoryLimit)
       /\ \A c \in ClientIds : ReplaySend(c) =>
            \A d \in ClientIds \ {c} : Send'[d] = Send[d]]_vars

\* C19: when the readPump of c exits, every other member of c's conversation
\* whose buffer has room gets a TYPING_STOPPED for c's participant, and the
\* exit leaves c waiting to hand itself to the Run loop's unregister case
\* with its socket closed.
C19_ReadLoopExitCleanup ==
    [][\A c \in ClientIds : ReadPumpExit(c) =>
          /\ \A d \in ClientIds \ {c} :
                SameConversation(c, d) /\ HasRoom(d) =>
                    Send'[d] = Append(Send[d],
                                      TypingEnvelope("TYPING_STOPPED", c))
          /\ pc'[c] = "unregister"
          /\ ~connOpen'[c]]_vars

\* C20: with the Run loop running, the membership map never holds more than
\* ConnectionLimit connections, and a register processed while it holds
\* ConnectionLimit leaves the map and the metrics as they were.
C20_ConnectionLimit ==
    [][/\ Cardinality(clients') <= ConnectionLimit
       /\ (/\ Cardinality(clients) >= ConnectionLimit
           /\ \E a \in Admissions : \E fetchOk \in BOOLEAN :
                  HandleWebSocket(a[1], a[2], fetchOk))
            => /\ clients' = clients
               /\ GetMetrics(Hub)' = GetMetrics(Hub)]_vars

DecodedFrameStep(c) ==
    /\ pc[c] = "read"
    /\ inputs' = inputs + 1
    /\ \/ \E msg \in FramesOf("MESSAGE") : ReadMessage(c, msg)
       \/ \E msg \in FramesOf("TYPING_STARTED") : ReadTypingStarted(c, msg)
       \/ \E msg \in FramesOf("TYPING_STOPPED") : ReadTypingStopped(c, msg)
       \/ \E msg \in FramesOf("READ_RECEIPT") : ReadReadReceipt(c, msg)
       \/ \E msg \in FramesOf("PING") : ReadOther(c, msg)

C24_CloseAtMostOnce ==
    [][/\ \A c \in clients : ~closed[c]
       /\ \A c \in ClientIds : closed[c] => closed'[c]
       /\ \A c \in ClientIds :
            HubUnregister(c) /\ c \notin clients =>
                /\ clients' = clients
                /\ Send' = Send
                /\ closed' = closed
                /\ crashed' = crashed
       /\ \A d \in ClientIds : ~ConcurrentDrop(d)]_vars

\* C25: no send is attempted on an outbound queue that has been closed: the
\* history replay of a connection sends only while that connection's queue
\* is open, and the connections a broadcast may select, the members of the
\* map, all have an open queue.
C25_NoSendOnClosedQueue ==
    [][/\ \A c \in ClientIds : ReplaySend(c) => ~closed[c]
       /\ \A c \in clients' : ~closed'[c]]_vars

\* C26: in every reachable state of an EnhancedHub the active-connection
\* metric GetMetrics reports equals the number of entries of the membership
\* map.
C26_ActiveMetricIsMembership ==
    GetMetrics(Hub).ActiveConnections = Cardinality(clients)

\* the step readPump of c takes on the decoded frame msg
ReadFrame(c, msg) ==
    \/ ReadMessage(c, msg)
    \/ ReadTypingStarted(c, msg)
    \/ ReadTypingStopped(c, msg)
    \/ ReadReadReceipt(c, msg)
    \/ ReadOther(c, msg)

\* C27: the session_id and sender_id fields of an inbound frame are ignored.
\* Every envelope a step of c's readPump puts on a buffer, and the message it
\* hands to the Run loop, carry the SessionID and UserID fixed on c at
\* admission; and a step is the step taken on a frame exactly when it is the
\* step taken on the frame of the same type, content and payload with other
\* identity fields, so that runs differing in those fields only go through
\* the same states and deliver the same envelopes.
C27_InboundIdentityIgnored ==
    [][\A c \in ClientIds : pc[c] = "read" /\ inputs' = inputs + 1 =>
          LET ref == CHOOSE a \in Claimed : TRUE
          IN \A msg \in FramesOf(decoded'[c].Type) :
                <<msg.SessionID, msg.SenderID>> = ref =>
                    IF ReadFrame(c, msg)
                    THEN /\ \A d \in ClientIds : Send'[d] # Send[d] =>
                               \E e \in {TypingEnvelope("TYPING_STARTED", c),
                                         TypingEnvelope("TYPING_STOPPED", c),
                                         ReceiptEnvelope(c, "m1")} :
                                   Send'[d] = Append(Send[d], e)
                         /\ pending'[c] # pending[c] =>
                               /\ pending'[c].SessionID = client[c].SessionID
                               /\ pending'[c].SenderID = client[c].UserID
                         /\ \A a \in Claimed \ {ref} :
                               ReadFrame(c, [msg EXCEPT !.SessionID = a[1],
                                                        !.SenderID = a[2]])
                    ELSE \A a \in Claimed \ {ref} :
                               ~ReadFrame(c, [msg EXCEPT !.SessionID = a[1],
                                                         !.SenderID = a[2]])]_vars

\* a connection admitted as u2 in s1 had a TYPING_STARTED frame decoded, whose
\* identity fields name another session or another sender, and the member of
\* the other participant holds the indicator under s1 and u2
C27_Witness ==
    \E c \in clients : \E d \in clients :
        /\ client[c] = [ID |-> c, SessionID |-> "s1", UserID |-> "u2"]
        /\ \A a \in Claimed : a # <<client[c].SessionID, client[c].UserID>>
        /\ OtherParticipant(c, d)
        /\ decoded[c].Type = "TYPING_STARTED"
        /\ Send[d] = <<TypingEnvelope("TYPING_STARTED", c)>>

\* C28: once the readPump of connection c has exited and emitted its final
\* TYPING_STOPPED, no step puts a further envelope attributed to c's
\* participant on the buffer of any connection; in particular c's idle timer
\* does not fire afterwards.
C28_SilentAfterExit ==
    [][\A c \in ClientIds : pc[c] \in {"unregister", "done"} =>
          /\ ~TypingTimerFire(c)
          /\ \A d \in ClientIds \ {c} :
                OtherParticipant(c, d) /\ Len(Send'[d]) > Len(Send[d]) =>
                    LET e == Send'[d][Len(Send'[d])]
                    IN ~(/\ e.Type \in {"TYPING_STARTED", "TYPING_STOPPED"}
                         /\ e.Data.UserID = client[c].UserID)]_vars

\* C29: the idle timer of connection c emits a TYPING_STOPPED only while c is
\* in state TYPING, that is when the last frame decoded from c was a
\* TYPING_STARTED; a connection that never sent TYPING_STARTED causes no
\* idle-timer TYPING_STOPPED.
C29_TimerOnlyWhenTyping ==
    [][\A c \in ClientIds :
          TypingTimerFire(c) => decoded[c].Type = "TYPING_STARTED"]_vars

\* C30: GetHub never fails. Called on a manager with at least one shard it
\* returns, for every sessionID (the empty string included), a shard that is
\* in the manager's table; called on a manager with no shard it returns no
\* shard and the process goes on.
C30_GetHubNeverFails ==
    [][\A s \in ManagerSessions : CallGetHub(s) =>
          /\ ~crashed'
          /\ IF \A id \in HubIds : hubs[id] = 0
             THEN resolved' = resolved
             ELSE \E id \in HubIds :
                    /\ hubs[id] # 0
                    /\ resolved'[s].hub = hubs[id]]_vars

====
